---- MODULE Spec2Model ----
(***************************************************************************)
(* SOI crossing and closest-approach detector                              *)
(* (draft_examples/try_3.py: quadratic_approximation, calculate_crossings) *)
(*                                                                         *)
(* Times are exact rationals <<num, den>> with den > 0, kept in lowest     *)
(* terms.  Distances are integers 0..MaxDist.  The ephemeris service       *)
(* (spice.conics / spkgeo / vnorm) is an arbitrary deterministic function  *)
(* of (element set, frame handling, time): a value is chosen when a time   *)
(* is evaluated for the first time and is reused on every later evaluation *)
(* of the same function at the same time.                                  *)
(***************************************************************************)
EXTENDS Integers, Sequences, FiniteSets, TLC

VARIABLES
    dt_et_start,      \* parameter: starting ephemeris time
    soi,              \* parameter: SOI radius
    max_iter,         \* parameter: iteration cap
    pc,               \* position in calculate_crossings
    dt_et,            \* current scan time
    step,             \* current scan step
    i,                \* loop index of the running for-loop
    soi_crossings,    \* list of refined crossing times
    min_distance,     \* running / reported minimum distance
    min_et,           \* time of min_distance (None until set)
    bracket,          \* sliding window of (time, distance) samples
    pha_el_wrt_earth, \* derived Earth-relative element set (None until derived)
    evals,            \* history: every distance evaluation made so far
    brentq_calls,     \* history: every root-refiner invocation
    result,           \* what the invocation handed to its caller
    fit_pc,           \* quadratic fit harness: position
    fit_in,           \* quadratic fit harness: parabola and sample times
    fit_out           \* quadratic fit harness: fitted time

vars == <<dt_et_start, soi, max_iter, pc, dt_et, step, i, soi_crossings,
          min_distance, min_et, bracket, pha_el_wrt_earth, evals,
          brentq_calls, result, fit_pc, fit_in, fit_out>>

scanVars == <<dt_et_start, soi, max_iter, pc, dt_et, step, i, soi_crossings,
              min_distance, min_et, bracket, pha_el_wrt_earth, evals,
              brentq_calls, result>>

fitVars == <<fit_pc, fit_in, fit_out>>

(***************************************************************************)
(* Bounds                                                                  *)
(***************************************************************************)
MaxDist == 2
MaxIter == 3
RootGrid == 2
MaxCoef == 2
MaxOffset == 2

Dist == 0..MaxDist
StartTimes == {1000}
FitBases == {0, 1000}

(***************************************************************************)
(* Exact rational arithmetic                                               *)
(***************************************************************************)
Abs(x) == IF x < 0 THEN -x ELSE x

RECURSIVE GCD(_, _)
GCD(a, b) == IF b = 0 THEN a ELSE GCD(b, a % b)

Rat(n, d) ==
    LET s == IF d < 0 THEN -1 ELSE 1
        g == GCD(Abs(n), Abs(d))
    IN  <<(s * n) \div g, (s * d) \div g>>

FromInt(n) == <<n, 1>>
RAdd(p, q) == Rat(p[1] * q[2] + q[1] * p[2], p[2] * q[2])
RSub(p, q) == Rat(p[1] * q[2] - q[1] * p[2], p[2] * q[2])
RMul(p, q) == Rat(p[1] * q[1], p[2] * q[2])
RDiv(p, q) == Rat(p[1] * q[2], p[2] * q[1])
RNeg(p) == <<-p[1], p[2]>>
RLt(p, q) == p[1] * q[2] < q[1] * p[2]
RLe(p, q) == p[1] * q[2] <= q[1] * p[2]
IsZero(p) == p[1] = 0

\* Python None for min_et / pha_el_wrt_earth, never a valid rational
None == <<0, 0>>
\* IEEE non-finite result of a division by zero
NonFinite == <<1, 0>>
\* np.inf: larger than every distance
Inf == MaxDist + 1

(***************************************************************************)
(* quadratic_approximation                                                 *)
(***************************************************************************)
\* np.polyfit(xs, ds, 2) on three points with distinct abscissae: the unique
\* interpolating parabola a*x^2 + b*x + c (Newton divided differences)
polyfit2(x1, y1, x2, y2, x3, y3) ==
    LET f12 == RDiv(RSub(y2, y1), RSub(x2, x1))
        f23 == RDiv(RSub(y3, y2), RSub(x3, x2))
        a   == RDiv(RSub(f23, f12), RSub(x3, x1))
        b   == RSub(f12, RMul(a, RAdd(x1, x2)))
        c   == RSub(y1, RAdd(RMul(a, RMul(x1, x1)), RMul(b, x1)))
    IN  <<a, b, c>>

ts_mean(t1, t2, t3) == RDiv(RAdd(RAdd(t1, t2), t3), FromInt(3))

\* The fit with the final un-shift (+ ts.mean()) forgotten
quadratic_approximation_unshifted(t1, d1, t2, d2, t3, d3) ==
    LET mean == ts_mean(t1, t2, t3)
        abc  == polyfit2(RSub(t1, mean), d1,
                         RSub(t2, mean), d2,
                         RSub(t3, mean), d3)
        a    == abc[1]
        b    == abc[2]
    IN  IF IsZero(a) THEN NonFinite
        ELSE RDiv(RNeg(b), RMul(FromInt(2), a))

quadratic_approximation(t1, d1, t2, d2, t3, d3) ==
    LET mean == ts_mean(t1, t2, t3)
        abc  == polyfit2(RSub(t1, mean), d1,
                         RSub(t2, mean), d2,
                         RSub(t3, mean), d3)
        a    == abc[1]
        b    == abc[2]
    IN  IF IsZero(a) THEN NonFinite
        ELSE RAdd(RDiv(RNeg(b), RMul(FromInt(2), a)), mean)

(***************************************************************************)
(* Distance evaluations                                                    *)
(***************************************************************************)
\* One distance evaluation: which element set was propagated, whether the
\* Earth heliocentric position was subtracted before the norm, where, and
\* the value obtained.  kind is "scan" for a loop sample, "refine" for an
\* endpoint evaluated by the root refiner, "fit" for the re-evaluation at the
\* fitted time.
Eval(kind, phase, elements, sub, t, d) ==
    [kind |-> kind, phase |-> phase, elements |-> elements,
     earth_subtracted |-> sub, t |-> t, d |-> d]

\* The values the ephemeris service can return for (elements, sub) at t given
\* the evaluations made so far: the recorded value when that function has
\* been evaluated at t before, any distance otherwise.
Oracle(elements, sub, t, log) ==
    LET known == {k \in 1..Len(log) : /\ log[k].elements = elements
                                      /\ log[k].earth_subtracted = sub
                                      /\ log[k].t = t}
    IN  IF known = {} THEN Dist ELSE {log[k].d : k \in known}

\* distance_from_earth(t, pha_elements): conics, spkgeo, subtract, vnorm
distance_from_earth(t, pha_elements, log) == Oracle(pha_elements, TRUE, t, log)

\* spice.vnorm(spice.conics(pha_el_wrt_earth, t)[:3])
earth_dist_of(t, log) == Oracle("pha_el_wrt_earth", FALSE, t, log)

(***************************************************************************)
(* scipy.optimize.brentq on [lo, hi] with f(lo) = flo, f(hi) = fhi          *)
(***************************************************************************)
GridPoints(lo, hi) ==
    {RAdd(lo, RDiv(RMul(FromInt(k), RSub(hi, lo)), FromInt(RootGrid))) :
        k \in 1..(RootGrid - 1)}

\* The set of values brentq may return; the empty set is its ValueError
\* "f(a) and f(b) must have different signs".
brentq(lo, hi, flo, fhi) ==
    IF flo = 0 THEN {lo}
    ELSE IF fhi = 0 THEN {hi}
    ELSE IF (flo > 0) = (fhi > 0) THEN {}
    ELSE GridPoints(lo, hi)

BrentqCall(phase, lo, hi, flo, fhi) ==
    [phase |-> phase, lo |-> lo, hi |-> hi, flo |-> flo, fhi |-> fhi]

(***************************************************************************)
(* calculate_crossings                                                     *)
(***************************************************************************)
\* A loop bound that is off by one
InRange_inclusive(k, n) == k <= n

\* for i in range(n)
InRange(k, n) == k < n

\* The exit comparison used in the entry scan
EntryCond_flipped(dist, threshold) == dist >= threshold

EntryCond(dist, threshold) == dist <= threshold

\* The exit comparison made strict
ExitCond_strict(dist, threshold) == dist > threshold

ExitCond(dist, threshold) == dist >= threshold

CoarseStep == 20
FineStep == 1

\* The step left at the fine value after the closest approach
ExitStep_unwidened == FineStep

ExitStep == 10

\* The scan time moved the wrong way (-= for +=)
Advance_backward(t, s) == RSub(t, FromInt(s))

\* dt_et += step, dt_et = t_min + 10
Advance(t, s) == RAdd(t, FromInt(s))

\* pha_el_wrt_earth before line 62 has run
NoElements == [epoch |-> None, state |-> "none", mu |-> "none"]

NoResult == [kind |-> "none", crossings |-> <<>>, min_et |-> None,
             min_distance |-> Inf]

Raise(kind) == [kind |-> kind, crossings |-> <<>>, min_et |-> None,
                min_distance |-> Inf]

Init ==
    /\ dt_et_start \in {FromInt(s) : s \in StartTimes}
    /\ soi \in 1..MaxDist
    /\ max_iter \in 1..MaxIter
    /\ pc = "entry_scan"
    /\ dt_et = dt_et_start
    /\ step = CoarseStep
    /\ i = 0
    /\ soi_crossings = <<>>
    /\ min_distance = Inf
    /\ min_et = None
    /\ bracket = <<>>
    /\ pha_el_wrt_earth = NoElements
    /\ evals = <<>>
    /\ brentq_calls = <<>>
    /\ result = NoResult
    /\ fit_pc = "idle"
    /\ fit_in = <<>>
    /\ fit_out = None

\* One iteration of the entry loop (lines 46-56)
EntryIter ==
    /\ pc = "entry_scan"
    /\ InRange(i, max_iter)
    /\ \E dist \in distance_from_earth(dt_et, "pha_el", evals) :
        LET e1 == Append(evals, Eval("scan", "entry", "pha_el", TRUE, dt_et, dist))
        IN  IF EntryCond(dist, soi)
            THEN LET lo == RSub(dt_et, FromInt(step))
                 IN \E dlo \in distance_from_earth(lo, "pha_el", e1) :
                     LET roots == brentq(lo, dt_et, dlo - soi, dist - soi)
                     IN /\ evals' = e1 \o
                             <<Eval("refine", "entry", "pha_el", TRUE, lo, dlo),
                               Eval("refine", "entry", "pha_el", TRUE, dt_et, dist)>>
                        /\ brentq_calls' = Append(brentq_calls,
                             BrentqCall("entry", lo, dt_et, dlo - soi, dist - soi))
                        /\ IF roots = {}
                           THEN /\ pc' = "raised"
                                /\ result' = Raise("ValueError")
                                /\ UNCHANGED soi_crossings
                           ELSE /\ \E t_entry \in roots :
                                     soi_crossings' = Append(soi_crossings, t_entry)
                                /\ pc' = "derive"
                                /\ UNCHANGED result
                        /\ UNCHANGED <<dt_et, i>>
            ELSE /\ evals' = e1
                 /\ dt_et' = Advance(dt_et, step)
                 /\ i' = i + 1
                 /\ UNCHANGED <<pc, soi_crossings, brentq_calls, result>>
    /\ UNCHANGED <<dt_et_start, soi, max_iter, step, min_distance, min_et,
                   bracket, pha_el_wrt_earth>>
    /\ UNCHANGED fitVars

\* The entry loop's else clause (lines 57-58)
EntryExhausted ==
    /\ pc = "entry_scan"
    /\ ~InRange(i, max_iter)
    /\ pc' = "raised"
    /\ result' = Raise("RuntimeError: First SOI crossing not found")
    /\ UNCHANGED <<dt_et_start, soi, max_iter, dt_et, step, i, soi_crossings,
                   min_distance, min_et, bracket, pha_el_wrt_earth, evals,
                   brentq_calls>>
    /\ UNCHANGED fitVars

\* Derivation of the Earth-relative elements and interior-scan setup
\* (lines 61-68): conics(pha_el, t_entry) is handed to oscelt with GM_EARTH
\* as it is, no Earth state is subtracted.
DeriveElements ==
    /\ pc = "derive"
    /\ pha_el_wrt_earth' = [epoch |-> soi_crossings[1],
                            state |-> "pha_heliocentric",
                            mu |-> "GM_EARTH"]
    /\ dt_et' = soi_crossings[1]
    /\ step' = FineStep
    /\ i' = 0
    /\ pc' = "interior_scan"
    /\ UNCHANGED <<dt_et_start, soi, max_iter, soi_crossings, min_distance,
                   min_et, bracket, evals, brentq_calls, result>>
    /\ UNCHANGED fitVars

\* The update with <=, which keeps the latest of equal samples
TrackMin_latest(earth_dist, t, md, me) ==
    IF earth_dist <= md THEN <<earth_dist, t>> ELSE <<md, me>>

\* The running-minimum update of lines 91-93
TrackMin(earth_dist, t, md, me) ==
    IF earth_dist < md THEN <<earth_dist, t>> ELSE <<md, me>>

\* The test with non-strict comparisons
IsLocalMin_nonstrict(b) ==
    Len(b) = 3 /\ b[2][2] <= b[1][2] /\ b[2][2] <= b[3][2]

\* The caller's test before the fit (lines 75-77)
IsLocalMin(b) == Len(b) = 3 /\ b[2][2] < b[1][2] /\ b[2][2] < b[3][2]

\* The newest sample dropped instead of the oldest (pop() for pop(0))
Slide_newest(b) == IF Len(b) = 3 THEN SubSeq(b, 1, 2) ELSE b

\* bracket.pop(0) once the window is full (lines 75, 89)
Slide(b) == IF Len(b) = 3 THEN Tail(b) ELSE b

\* One iteration of the interior loop (lines 69-95)
InteriorIter ==
    /\ pc = "interior_scan"
    /\ InRange(i, max_iter)
    /\ \E earth_dist \in earth_dist_of(dt_et, evals) :
        LET e1 == Append(evals, Eval("scan", "interior", "pha_el_wrt_earth",
                                     FALSE, dt_et, earth_dist))
            b1 == Append(bracket, <<dt_et, earth_dist>>)
        IN  IF IsLocalMin(b1)
            THEN LET t_min == quadratic_approximation(
                                  b1[1][1], FromInt(b1[1][2]),
                                  b1[2][1], FromInt(b1[2][2]),
                                  b1[3][1], FromInt(b1[3][2]))
                 IN \E d_min \in earth_dist_of(t_min, e1) :
                     /\ evals' = Append(e1, Eval("fit", "interior",
                                  "pha_el_wrt_earth", FALSE, t_min, d_min))
                     /\ bracket' = b1
                     /\ min_distance' = d_min
                     /\ min_et' = t_min
                     /\ dt_et' = Advance(t_min, ExitStep)
                     /\ step' = ExitStep
                     /\ pc' = "exit_scan"
                     /\ i' = 0
            ELSE LET m == TrackMin(earth_dist, dt_et, min_distance, min_et)
                 IN /\ evals' = e1
                    /\ bracket' = Slide(b1)
                    /\ min_distance' = m[1]
                    /\ min_et' = m[2]
                    /\ dt_et' = Advance(dt_et, step)
                    /\ i' = i + 1
                    /\ UNCHANGED <<step, pc>>
    /\ UNCHANGED <<dt_et_start, soi, max_iter, soi_crossings,
                   pha_el_wrt_earth, brentq_calls, result>>
    /\ UNCHANGED fitVars

\* The interior loop runs out of iterations and falls through to line 98
InteriorExhausted ==
    /\ pc = "interior_scan"
    /\ ~InRange(i, max_iter)
    /\ pc' = "exit_scan"
    /\ i' = 0
    /\ UNCHANGED <<dt_et_start, soi, max_iter, dt_et, step, soi_crossings,
                   min_distance, min_et, bracket, pha_el_wrt_earth, evals,
                   brentq_calls, result>>
    /\ UNCHANGED fitVars

\* One iteration of the exit loop (lines 98-108)
ExitIter ==
    /\ pc = "exit_scan"
    /\ InRange(i, max_iter)
    /\ \E dist \in distance_from_earth(dt_et, "pha_el_wrt_earth", evals) :
        LET e1 == Append(evals, Eval("scan", "exit", "pha_el_wrt_earth",
                                     TRUE, dt_et, dist))
        IN  IF ExitCond(dist, soi)
            THEN LET lo == RSub(dt_et, FromInt(step))
                 IN \E dlo \in distance_from_earth(lo, "pha_el_wrt_earth", e1) :
                     LET roots == brentq(lo, dt_et, dlo - soi, dist - soi)
                     IN /\ evals' = e1 \o
                             <<Eval("refine", "exit", "pha_el_wrt_earth", TRUE, lo, dlo),
                               Eval("refine", "exit", "pha_el_wrt_earth", TRUE, dt_et, dist)>>
                        /\ brentq_calls' = Append(brentq_calls,
                             BrentqCall("exit", lo, dt_et, dlo - soi, dist - soi))
                        /\ IF roots = {}
                           THEN /\ pc' = "raised"
                                /\ result' = Raise("ValueError")
                                /\ UNCHANGED soi_crossings
                           ELSE /\ \E t_exit \in roots :
                                     soi_crossings' = Append(soi_crossings, t_exit)
                                /\ pc' = "report"
                                /\ UNCHANGED result
                        /\ UNCHANGED <<dt_et, i>>
            ELSE /\ evals' = e1
                 /\ dt_et' = Advance(dt_et, step)
                 /\ i' = i + 1
                 /\ UNCHANGED <<pc, soi_crossings, brentq_calls, result>>
    /\ UNCHANGED <<dt_et_start, soi, max_iter, step, min_distance, min_et,
                   bracket, pha_el_wrt_earth>>
    /\ UNCHANGED fitVars

\* The exit loop has no else clause: running out of iterations falls through
\* to line 110
ExitExhausted ==
    /\ pc = "exit_scan"
    /\ ~InRange(i, max_iter)
    /\ pc' = "report"
    /\ UNCHANGED <<dt_et_start, soi, max_iter, dt_et, step, i, soi_crossings,
                   min_distance, min_et, bracket, pha_el_wrt_earth, evals,
                   brentq_calls, result>>
    /\ UNCHANGED fitVars

\* Lines 110-111
Return ==
    /\ pc = "report"
    /\ pc' = "returned"
    /\ result' = [kind |-> "return", crossings |-> soi_crossings,
                  min_et |-> min_et, min_distance |-> min_distance]
    /\ UNCHANGED <<dt_et_start, soi, max_iter, dt_et, step, i, soi_crossings,
                   min_distance, min_et, bracket, pha_el_wrt_earth, evals,
                   brentq_calls>>
    /\ UNCHANGED fitVars

Next ==
    \/ EntryIter
    \/ EntryExhausted
    \/ DeriveElements
    \/ InteriorIter
    \/ InteriorExhausted
    \/ ExitIter
    \/ ExitExhausted
    \/ Return

Spec == Init /\ [][Next]_vars

(***************************************************************************)
(* quadratic_approximation on samples of a known parabola                  *)
(***************************************************************************)
\* d(t) = a*(t - t0)^2 + d0
Parabola(a, t0, d0, t) ==
    RAdd(RMul(FromInt(a), RMul(RSub(t, t0), RSub(t, t0))), FromInt(d0))

Offsets == (-MaxOffset)..MaxOffset

\* Vertex times on a half-unit grid around each base time; sample times at
\* three distinct whole offsets from the vertex, in any order.
FitInputs ==
    {[a |-> a, t0 |-> t0, d0 |-> d0,
      t1 |-> RAdd(t0, FromInt(o[1])),
      t2 |-> RAdd(t0, FromInt(o[2])),
      t3 |-> RAdd(t0, FromInt(o[3]))] :
        a \in 1..MaxCoef,
        t0 \in {Rat(2 * s + k, 2) : s \in FitBases, k \in Offsets},
        d0 \in Dist,
        o \in {q \in Offsets \X Offsets \X Offsets :
                  q[1] # q[2] /\ q[1] # q[3] /\ q[2] # q[3]}}

InitFit ==
    /\ dt_et_start = FromInt(0)
    /\ soi = 1
    /\ max_iter = 1
    /\ pc = "idle"
    /\ dt_et = dt_et_start
    /\ step = CoarseStep
    /\ i = 0
    /\ soi_crossings = <<>>
    /\ min_distance = Inf
    /\ min_et = None
    /\ bracket = <<>>
    /\ pha_el_wrt_earth = NoElements
    /\ evals = <<>>
    /\ brentq_calls = <<>>
    /\ result = NoResult
    /\ fit_pc = "ready"
    /\ fit_in \in FitInputs
    /\ fit_out = None

\* Sample the parabola at the three times and fit
FitApply ==
    /\ fit_pc = "ready"
    /\ fit_out' = quadratic_approximation(
                     fit_in.t1, Parabola(fit_in.a, fit_in.t0, fit_in.d0, fit_in.t1),
                     fit_in.t2, Parabola(fit_in.a, fit_in.t0, fit_in.d0, fit_in.t2),
                     fit_in.t3, Parabola(fit_in.a, fit_in.t0, fit_in.d0, fit_in.t3))
    /\ fit_pc' = "fitted"
    /\ UNCHANGED fit_in
    /\ UNCHANGED scanVars

NextFit == FitApply

SpecFit == InitFit /\ [][NextFit]_vars

(***************************************************************************)
(* Properties                                                              *)
(***************************************************************************)
Terminal == {"returned", "raised"}

NotFound == "RuntimeError: First SOI crossing not found"

\* The loop samples of one phase, in the order taken
ScanSamples(phase) ==
    SelectSeq(evals, LAMBDA e : e.kind = "scan" /\ e.phase = phase)

AllScanSamples == SelectSeq(evals, LAMBDA e : e.kind = "scan")

\* The entry scan has evaluated max_iter samples, none with distance <= soi
EntryScanSpent ==
    LET s == ScanSamples("entry")
    IN  Len(s) = max_iter /\ \A k \in 1..Len(s) : ~(s[k].d <= soi)

\* The exit scan has evaluated max_iter samples, none with distance >= soi
ExitScanSpent ==
    LET s == ScanSamples("exit")
    IN  Len(s) = max_iter /\ \A k \in 1..Len(s) : ~(s[k].d >= soi)

\* C1: when the entry scan or the exit scan has used up max_iter samples
\* without meeting its threshold condition, the invocation ends in the
\* "crossing not found" error and hands no result tuple (no crossings list)
\* to the caller.
C1_SpentScanRaisesNotFound ==
    (pc \in Terminal /\ (EntryScanSpent \/ ExitScanSpent))
        => /\ pc = "raised"
           /\ result.kind = NotFound
           /\ result.crossings = <<>>

\* C2: every normal return carries exactly two crossing events, the entry
\* crossing first and the exit crossing second.
C2_ReturnsTwoCrossings ==
    pc = "returned"
        => /\ Len(result.crossings) = 2
           /\ Len(brentq_calls) = 2
           /\ brentq_calls[1].phase = "entry"
           /\ brentq_calls[2].phase = "exit"

\* C3: whenever the invocation returns both crossings and a closest approach,
\* entry_time < approach_time < exit_time holds strictly.
C3_StrictOrdering ==
    (pc = "returned" /\ Len(result.crossings) = 2 /\ result.min_et # None)
        => /\ RLt(result.crossings[1], result.min_et)
           /\ RLt(result.min_et, result.crossings[2])

\* C4: every invocation of the root refiner gets a bracket with a sign change
\* of distance - threshold: the condition is not met at t - step and is met
\* at t (entry: above the threshold then at or below it; exit: below the
\* threshold then at or above it).
C4_BracketHasSignChange ==
    \A k \in 1..Len(brentq_calls) :
        LET c == brentq_calls[k]
        IN  IF c.phase = "entry"
            THEN c.flo > 0 /\ c.fhi <= 0
            ELSE c.flo < 0 /\ c.fhi >= 0

\* C5: every distance evaluation uses the frame of its element set: the Earth
\* position is subtracted exactly when the elements are heliocentric.
C5_FrameMatchesElements ==
    \A k \in 1..Len(evals) :
        evals[k].earth_subtracted = (evals[k].elements = "pha_el")

\* Position of a program point in the fixed order of the function body
PhaseOrd(p) ==
    CASE p = "entry_scan"    -> 5
      [] p = "derive"        -> 4
      [] p = "interior_scan" -> 3
      [] p = "exit_scan"     -> 2
      [] p = "report"        -> 1
      [] OTHER               -> 0

\* Steps the invocation can still take: remaining program points, each with
\* room for a full loop, plus the iterations left in the running loop
Rank == PhaseOrd(pc) * (max_iter + 1) + (max_iter - i)

\* The points of the function body that have a next step
ProgramPoints == {"entry_scan", "derive", "interior_scan", "exit_scan", "report"}

\* C6: every invocation terminates, and each of the three scan loops takes
\* at most max_iter samples, hence at most 3 * max_iter scan samples in all:
\* every step strictly decreases a non-negative measure, the loops respect
\* the cap, and until it has returned or raised the invocation is at a
\* program point that has a next step.
C6_BoundedScansAndTermination ==
    /\ [](/\ Len(ScanSamples("entry")) <= max_iter
          /\ Len(ScanSamples("interior")) <= max_iter
          /\ Len(ScanSamples("exit")) <= max_iter
          /\ Len(AllScanSamples) <= 3 * max_iter
          /\ Rank >= 0
          /\ (pc \notin Terminal => pc \in ProgramPoints))
    /\ [][Rank' < Rank]_vars

\* An invocation that used every iteration of all three loops and returned
C6_Witness ==
    /\ pc = "returned"
    /\ max_iter > 1
    /\ Len(AllScanSamples) = 3 * max_iter

\* C7: min_distance never exceeds the smallest raw sample distance the
\* interior scan has evaluated so far, also after the Found transition and in
\* the value returned.
C7_MinNeverExceedsRawMin ==
    LET s == ScanSamples("interior")
    IN  \A k \in 1..Len(s) : min_distance <= s[k].d

\* C8: the closest-approach distance returned is strictly below the SOI
\* threshold and strictly above 0.
C8_ApproachInsideSOI ==
    pc = "returned" => (0 < result.min_distance /\ result.min_distance < soi)

\* C9: if the threshold is larger than the distance at the start time, the
\* entry scan stops on its first sample: it takes no second sample, and the
\* refiner is invoked with t = start (no t += step before it).
C9_EntryTriggersOnFirstSample ==
    LET s == ScanSamples("entry")
    IN  (Len(s) >= 1 /\ s[1].d < soi)
            => /\ Len(s) = 1
               /\ s[1].t = dt_et_start
               /\ Len(brentq_calls) >= 1
               /\ brentq_calls[1].phase = "entry"
               /\ brentq_calls[1].hi = dt_et_start
               /\ pc # "entry_scan"

\* The entry refinement ran right after a first sample below a threshold
\* that leaves room for further iterations
C9_Witness ==
    LET s == ScanSamples("entry")
    IN  /\ pc = "derive"
        /\ max_iter > 1
        /\ Len(s) = 1
        /\ s[1].d < soi
        /\ soi_crossings # <<>>

\* C10: fitting three samples of d(t) = a*(t - t0)^2 + d0 (a > 0, distinct
\* sample times, not starting at zero) returns t0, and the parabola at the
\* returned time is d0.
C10_FitRoundTrip ==
    fit_pc = "fitted"
        => /\ fit_out = fit_in.t0
           /\ Parabola(fit_in.a, fit_in.t0, fit_in.d0, fit_out) = FromInt(fit_in.d0)

\* A fit of unevenly spaced samples, given out of time order, of a parabola
\* whose vertex lies between grid times far from zero
C10_Witness ==
    /\ fit_pc = "fitted"
    /\ fit_in.t0[2] = 2
    /\ RLt(FromInt(100), fit_in.t0)
    /\ RLt(fit_in.t3, fit_in.t1)
    /\ RLt(fit_in.t1, fit_in.t2)
    /\ RSub(fit_in.t3, fit_in.t1) # RSub(fit_in.t2, fit_in.t3)
    /\ fit_out = fit_in.t0

\* The refiner invocations of one phase
RefineCalls(phase) ==
    SelectSeq(brentq_calls, LAMBDA c : c.phase = phase)

\* C11: each crossing scan stops at the first sample that meets its
\* condition: a sample at or below the threshold (entry) or at or above it
\* (exit) is the last sample of its phase and is the upper end of the
\* refinement made at once, every earlier sample of the phase is strictly on
\* the other side, and a refinement is only made at such a sample.
C11_StopsAtFirstHit ==
    /\ LET s == ScanSamples("entry")
           r == RefineCalls("entry")
       IN  /\ \A k \in 1..Len(s) :
                 IF s[k].d <= soi
                 THEN k = Len(s) /\ Len(r) = 1 /\ r[1].hi = s[k].t
                 ELSE s[k].d > soi
           /\ Len(r) <= 1
           /\ Len(r) = 1 => (Len(s) >= 1 /\ s[Len(s)].d <= soi)
    /\ LET s == ScanSamples("exit")
           r == RefineCalls("exit")
       IN  /\ \A k \in 1..Len(s) :
                 IF s[k].d >= soi
                 THEN k = Len(s) /\ Len(r) = 1 /\ r[1].hi = s[k].t
                 ELSE s[k].d < soi
           /\ Len(r) <= 1
           /\ Len(r) = 1 => (Len(s) >= 1 /\ s[Len(s)].d >= soi)

\* Both scans stopped after at least one sample that did not meet the
\* condition, the exit scan on a sample exactly at the threshold
C11_Witness ==
    /\ pc = "report"
    /\ Len(ScanSamples("entry")) >= 2
    /\ Len(ScanSamples("exit")) >= 2
    /\ Len(RefineCalls("entry")) = 1
    /\ Len(RefineCalls("exit")) = 1
    /\ ScanSamples("exit")[Len(ScanSamples("exit"))].d = soi

\* The last n loop samples of the interior scan as (time, distance) pairs
LastInterior(n) ==
    LET s == ScanSamples("interior")
    IN  [k \in 1..n |-> <<s[Len(s) - n + k].t, s[Len(s) - n + k].d>>]

\* C12: the sliding window holds at most 3 samples, at most 2 at the start
\* of an interior iteration, and they are the most recent interior samples in
\* the order taken, at times exactly one fine step (1) apart.
C12_WindowIsRecentSamples ==
    /\ Len(bracket) <= 3
    /\ pc = "interior_scan" => Len(bracket) <= 2
    /\ Len(bracket) <= Len(ScanSamples("interior"))
    /\ bracket = LastInterior(Len(bracket))
    /\ \A k \in 1..(Len(bracket) - 1) :
          bracket[k + 1][1] = RAdd(bracket[k][1], FromInt(1))

\* The window after it was full and slid by one: two samples left, the
\* oldest of three gone
C12_Witness ==
    /\ pc = "interior_scan"
    /\ Len(ScanSamples("interior")) = 3
    /\ Len(bracket) = 2
    /\ bracket[1][2] # ScanSamples("interior")[1].d

\* The re-evaluations at a fitted time: one per invocation of the fit
FitEvals == SelectSeq(evals, LAMBDA e : e.kind = "fit")

Found == Len(FitEvals) > 0

VertexOf(b) ==
    RAdd(b[2][1], Rat(b[1][2] - b[3][2],
                      2 * (b[1][2] - 2 * b[2][2] + b[3][2])))

\* Position of the first evaluation of a kind in the history, 0 when none
FirstOfKind(kind) ==
    IF \E k \in 1..Len(evals) : evals[k].kind = kind
    THEN CHOOSE k \in 1..Len(evals) :
            /\ evals[k].kind = kind
            /\ \A j \in 1..(k - 1) : evals[j].kind # kind
    ELSE 0

\* C14: on Found the closest-approach time is the fitted vertex, the
\* closest-approach distance is the distance re-evaluated there, the step
\* goes from 1 to 10, the next sample is taken at t_min + 10 and no interior
\* sample follows; the exit scan steps by 10 exactly when Found occurred and
\* by 1 otherwise.
C14_FoundTransition ==
    LET x == ScanSamples("exit")
        r == RefineCalls("exit")
        inExit == pc \in {"exit_scan", "report", "returned"} \/ Len(x) > 0
    IN  /\ Found =>
              LET f == FitEvals[1]
              IN  /\ f.t = VertexOf(bracket)
                  /\ min_et = f.t
                  /\ min_distance = f.d
                  /\ step = 10
                  /\ \A k \in (FirstOfKind("fit") + 1)..Len(evals) :
                        evals[k].phase = "exit"
                  /\ Len(x) > 0 => x[1].t = RAdd(f.t, FromInt(10))
                  /\ (pc = "exit_scan" /\ Len(x) = 0)
                        => dt_et = RAdd(f.t, FromInt(10))
        /\ inExit => step = (IF Found THEN 10 ELSE 1)
        /\ \A k \in 1..(Len(x) - 1) :
              x[k + 1].t = RAdd(x[k].t, FromInt(IF Found THEN 10 ELSE 1))
        /\ \A k \in 1..Len(r) :
              r[k].lo = RSub(r[k].hi, FromInt(IF Found THEN 10 ELSE 1))

\* After Found with a re-evaluated distance different from d2 and a vertex
\* off the middle sample, the exit scan took two samples and was refined
C14_Witness ==
    /\ Found
    /\ pc = "report"
    /\ FitEvals[1].d # bracket[2][2]
    /\ min_et # bracket[2][1]
    /\ Len(ScanSamples("exit")) >= 2
    /\ Len(RefineCalls("exit")) = 1

\* The interior scan used all its iterations without invoking the fit
Exhausted ==
    /\ ~Found
    /\ Len(ScanSamples("interior")) = max_iter
    /\ pc \notin {"entry_scan", "derive", "interior_scan"}

\* Index of the earliest smallest sample of a non-empty sample sequence
EarliestMin(s) ==
    CHOOSE k \in 1..Len(s) :
        /\ \A j \in 1..Len(s) : s[k].d <= s[j].d
        /\ \A j \in 1..(k - 1) : s[j].d > s[k].d

\* C15: after Exhausted the invocation goes on to the exit scan (it can only
\* fail later, in the exit refinement), and the closest approach tracked and
\* returned is the smallest of the max_iter interior samples, the earliest
\* one on ties, with that sample's time.
C15_ExhaustedReportsBestSample ==
    Exhausted =>
        LET s == ScanSamples("interior")
            k == EarliestMin(s)
        IN  /\ min_distance = s[k].d
            /\ min_et = s[k].t
            /\ pc = "returned" => /\ result.min_distance = s[k].d
                                  /\ result.min_et = s[k].t
            /\ pc = "raised" => /\ result.kind = "ValueError"
                                /\ Len(RefineCalls("exit")) = 1

\* A return after Exhausted where the smallest distance was sampled twice,
\* first by a sample that is not the last one
C15_Witness ==
    /\ Exhausted
    /\ pc = "returned"
    /\ max_iter >= 2
    /\ LET s == ScanSamples("interior")
       IN  /\ EarliestMin(s) < Len(s)
           /\ s[Len(s)].d = s[EarliestMin(s)].d
           /\ result.min_et = s[EarliestMin(s)].t

\* C16: the Earth-relative element set exists from the end of the entry
\* phase on, and from then on it is, unchanged, the set derived at the
\* refined entry crossing time from the PHA state relative to Earth (PHA
\* heliocentric state minus Earth heliocentric state) with Earth's
\* gravitational parameter.
C16_DerivedFromEarthRelativeState ==
    /\ pc \in {"entry_scan", "derive"} => pha_el_wrt_earth = NoElements
    /\ pc \in {"interior_scan", "exit_scan", "report", "returned"}
          => pha_el_wrt_earth # NoElements
    /\ pha_el_wrt_earth # NoElements
          => pha_el_wrt_earth = [epoch |-> soi_crossings[1],
                                 state |-> "pha_minus_earth",
                                 mu |-> "GM_EARTH"]

\* Order of the scanning phases
PhaseIdx(phase) ==
    CASE phase = "entry"    -> 1
      [] phase = "interior" -> 2
      [] OTHER              -> 3

\* C17 as stated: the phases run in the order entry, interior, exit, each at
\* most once, and the times sampled by the scan loops never decrease over
\* the whole invocation.
C17_SampleTimesNeverDecrease ==
    LET s == AllScanSamples
    IN  \A k \in 1..(Len(s) - 1) :
            /\ PhaseIdx(s[k].phase) <= PhaseIdx(s[k + 1].phase)
            /\ RLe(s[k].t, s[k + 1].t)

\* C17 amended: the phases run in the order entry, interior, exit, each at
\* most once; sample times strictly increase within a phase and from the
\* last interior sample to the first exit sample; the interior scan starts
\* at the refined entry crossing, which is no later than the last entry
\* sample and at most one coarse step (20) before it.
C17_ForwardExceptEntryRefinement ==
    LET s == AllScanSamples
    IN  \A k \in 1..(Len(s) - 1) :
            /\ PhaseIdx(s[k].phase) <= PhaseIdx(s[k + 1].phase)
            /\ PhaseIdx(s[k + 1].phase) <= PhaseIdx(s[k].phase) + 1
            /\ IF s[k].phase = "entry" /\ s[k + 1].phase = "interior"
               THEN /\ s[k + 1].t = soi_crossings[1]
                    /\ RLe(s[k + 1].t, s[k].t)
                    /\ RLe(RSub(s[k].t, FromInt(20)), s[k + 1].t)
               ELSE RLt(s[k].t, s[k + 1].t)

\* All three scans sampled, the entry scan more than once, and the interior
\* scan started strictly before the last entry sample
C17_Witness ==
    /\ pc = "report"
    /\ Found
    /\ Len(ScanSamples("entry")) >= 2
    /\ Len(ScanSamples("exit")) >= 2
    /\ RLt(ScanSamples("interior")[1].t,
           ScanSamples("entry")[Len(ScanSamples("entry"))].t)

\* C18: whenever the interior scan invoked the fit, the curvature of the
\* window d1 - 2*d2 + d3 is strictly positive, the fitted time is finite and
\* it lies within half a step of the middle sample: |t_min - t2| < 1/2.
C18_VertexInsideWindow ==
    Found =>
        LET b == bracket
            t_min == FitEvals[1].t
        IN  /\ b[1][2] - 2 * b[2][2] + b[3][2] > 0
            /\ t_min # NonFinite
            /\ t_min[2] > 0
            /\ RLt(RSub(b[2][1], Rat(1, 2)), t_min)
            /\ RLt(t_min, RAdd(b[2][1], Rat(1, 2)))
            /\ RLt(b[1][1], t_min)
            /\ RLt(t_min, b[3][1])

\* The fit was invoked on a window whose vertex lies after the middle sample
C18_Witness ==
    /\ Found
    /\ RLt(bracket[2][1], FitEvals[1].t)
    /\ bracket[1][2] > bracket[3][2]

====
